---- MODULE Spec2Model ----
(***************************************************************************)
(* A model of node_server.py: one blockchain node (the module-level        *)
(* `blockchain` object and `peers` set) served by a threaded Flask server. *)
(* Every in-flight HTTP request is a thread; a thread runs one handler and *)
(* its steps interleave with the other threads' steps at the points where  *)
(* the handler reads or writes shared state.  The remote peers are the     *)
(* environment: what they post and what they answer is drawn from small    *)
(* sets.                                                                   *)
(*                                                                         *)
(* Strings that are SHA-256 hex digests are modelled as records            *)
(*   [prefix |-> the first `difficulty` hex characters, pre |-> the text   *)
(*    that was hashed]                                                     *)
(* so that two digests are equal exactly when the hashed texts are equal   *)
(* (SHA-256 taken as collision free) and startswith('0' * difficulty) is   *)
(* decided by the digest alone.                                            *)
(***************************************************************************)
EXTENDS Integers, Sequences, FiniteSets, TLC

\* ---------------------------------------------------------------- bounds
MaxThreads == 2    \* requests the server handles at the same time
MaxTx      == 2    \* records submitted through /new_transaction
MaxChain   == 3    \* no request that may grow a chain starts beyond this length
MaxTime    == 1    \* time.time() returns a value in 1..MaxTime
MaxPeers   == 2    \* peer addresses
MaxResync  == 1    \* successful /register_with chain replacements
MaxRefused == 1    \* chain dumps /register_with refused as tampered
HexBase    == 2    \* size of the alphabet of a digest character
MaxSearch  == 3    \* nonces a proof-of-work search tries after nonce 0, at most

\* ------------------------------------------------------ program constants
difficulty == 4

Threads   == 1..MaxThreads
Times     == 1..MaxTime
Addresses == 1..MaxPeers

\* ------------------------------------------------------------- strings
\* The string "0" (one character, no hashed text behind it).
ZeroString == [prefix |-> <<0>>, pre |-> <<>>]
\* A string of `difficulty` zero characters that is nobody's digest.
ForgedString == [prefix |-> [i \in 1..difficulty |-> 0], pre |-> <<>>]
\* No string at all (a local that is not bound yet).
NoString == [prefix |-> <<>>, pre |-> <<>>]

\* str.startswith('0' * d)
StartsWithZeros(s, d) ==
    /\ Len(s.prefix) >= d
    /\ \A i \in 1..d : s.prefix[i] = 0

\* ---------------------------------------------------------------- blocks
\* Block.__init__.  `hash` is <<>> while the object has no attribute `hash`
\* and <<h>> once it has been assigned.  `cls` tells a Block object from a
\* dict parsed from JSON.  `txlist` is the identity of the list object held in
\* `transactions`: k > 0 when it is the very list currently bound to
\* ledgers[k].unconfirmed_transactions, 0 when it is a list of its own.
Block(index, transactions, timestamp, previous_hash, nonce) ==
    [cls |-> "Block", index |-> index, transactions |-> transactions,
     timestamp |-> timestamp, previous_hash |-> previous_hash, nonce |-> nonce,
     hash |-> <<>>, txlist |-> 0]

\* The Block verify_and_add_block and create_chain_from_dump build from the
\* dict they are given.
Posted(block_data) ==
    Block(block_data.index, block_data.transactions, block_data.timestamp,
          block_data.previous_hash, block_data.nonce)

\* json.dumps(self.__dict__, sort_keys=True): the attributes in key order
\* hash (when present), index, nonce, previous_hash, timestamp, transactions.
JsonDumps(b) ==
    <<b.hash, b.index, b.nonce, b.previous_hash, b.timestamp, b.transactions>>

RECURSIVE TxSum(_)
TxSum(txs) ==
    IF txs = <<>> THEN 0
    ELSE Head(txs).content + Head(txs).timestamp + TxSum(Tail(txs))

\* The number a string enters the mix with: its leading characters read as a
\* number, plus the length of what was hashed to make it.
RECURSIVE Digits(_, _)
Digits(prefix, i) ==
    IF i = 0 THEN 0 ELSE Digits(prefix, i - 1) * HexBase + prefix[i]

StrNum(s) == Digits(s.prefix, Len(s.prefix)) + Len(s.pre)

\* What the serialized attributes other than the nonce contribute to the
\* leading characters of sha256(text).
Mix(text) ==
    LET h == IF text[1] = <<>> THEN 0 ELSE 13 * (1 + StrNum(text[1][1]))
    IN  h + 3 * text[2] + 5 * (1 + StrNum(text[4])) + 7 * text[5]
          + 11 * TxSum(text[6])

\* The number the leading characters of sha256(text) are read from; the digest
\* has the zero prefix when it is 0.  The nonce enters with step 1, so that a
\* search over 0, 1, 2, ... meets a digest with the zero prefix after 1 to
\* MaxSearch steps; a text with nonce 0 never has it (the digest of the genesis
\* block, 6dbf2312..., does not).
Scramble(text) == (1 + (Mix(text) % MaxSearch) + text[3]) % (MaxSearch + 1)

\* sha256(text).hexdigest()
Sha256(text) ==
    LET v == Scramble(text)
    IN  [prefix |-> [i \in 1..difficulty |->
                        (v \div (HexBase ^ (difficulty - i))) % HexBase],
         pre |-> text]

\* Block.compute_hash
compute_hash(b) == Sha256(JsonDumps(b))

\* is_valid_proof without its startswith test.
DigestOnly(block, block_hash) == block_hash = compute_hash(block)

\* Blockchain.is_valid_proof
is_valid_proof(block, block_hash) ==
    /\ StartsWithZeros(block_hash, difficulty)
    /\ block_hash = compute_hash(block)

\* proof_of_work without its loop: the digest at the nonce the block has.
NoSearch(block, d) == [nonce |-> block.nonce, hash |-> compute_hash(block)]

\* Blockchain.proof_of_work from its line 86 on, run to completion on a block
\* nobody else touches, with d for the class attribute `difficulty`: the nonce
\* the search ends on and the digest it returns.
RECURSIVE PowSearch(_, _)
PowSearch(block, d) ==
    LET computed_hash == compute_hash(block)
    IN  IF StartsWithZeros(computed_hash, d)
        THEN [nonce |-> block.nonce, hash |-> computed_hash]
        ELSE PowSearch([block EXCEPT !.nonce = @ + 1], d)

\* Blockchain.proof_of_work: line 85 sets the nonce to 0.
proof_of_work(block) == PowSearch([block EXCEPT !.nonce = 0], difficulty)

\* Blockchain.create_genesis_block: the block it appends.
GenesisBlock ==
    LET g == Block(0, <<>>, 0, ZeroString, 0)
    IN  [g EXCEPT !.hash = <<compute_hash(g)>>]

\* Blockchain.__init__ followed by create_genesis_block
NewBlockchain ==
    [kind |-> "Blockchain", chain |-> <<GenesisBlock>>,
     unconfirmed_transactions |-> <<>>]

\* Blockchain.last_block
last_block(bc) == bc.chain[Len(bc.chain)]

\* add_block without its previous_hash test.
ProofOnly(bc, block, proof) == is_valid_proof(block, proof)

\* Blockchain.add_block, its two tests: TRUE when the block is appended.
AddBlockAccepts(bc, block, proof) ==
    LET previous_hash == last_block(bc).hash[1]
    IN  /\ previous_hash = block.previous_hash
        /\ is_valid_proof(block, proof)

\* Blockchain.add_block, its effect when both tests pass.
AddBlockAppend(bc, block, proof) ==
    [bc EXCEPT !.chain = Append(@, [block EXCEPT !.hash = <<proof>>])]

\* The candidate of mine with the tip's own index.
StaleIndexBlock(bc, id, now) ==
    LET last == last_block(bc)
        b == Block(last.index, bc.unconfirmed_transactions, now, last.hash[1], 0)
    IN  [b EXCEPT !.txlist = id]

\* Blockchain.mine, the candidate it builds (lines 143-146); the candidate's
\* transactions attribute is the pending list itself, not a copy.
NewBlock(bc, id, now) ==
    LET last == last_block(bc)
        b == Block(last.index + 1, bc.unconfirmed_transactions, now,
                   last.hash[1], 0)
    IN  [b EXCEPT !.txlist = id]

\* A walk that finds every block sound.
SkipWalk(chain, i, previous_hash) == [result |-> "True", chain |-> chain]

\* Blockchain.check_chain_validity from position i on, previous_hash being the
\* running hash.  `block.hash` needs an object that has the attribute: a dict
\* parsed from JSON, or a Block whose hash was deleted, raises AttributeError.
\* The result carries the chain as the call leaves it: delattr(block, "hash")
\* is undone only for the blocks that pass.
RECURSIVE ValidityWalk(_, _, _)
ValidityWalk(chain, i, previous_hash) ==
    IF i > Len(chain) THEN [result |-> "True", chain |-> chain]
    ELSE LET block == chain[i]
         IN  IF block.cls # "Block" \/ block.hash = <<>>
             THEN [result |-> "AttributeError", chain |-> chain]
             ELSE LET block_hash == block.hash[1]
                      stripped == [block EXCEPT !.hash = <<>>]
                  IN  IF \/ ~is_valid_proof(stripped, block_hash)
                         \/ previous_hash # block.previous_hash
                      THEN [result |-> "False",
                            chain |-> [chain EXCEPT ![i] = stripped]]
                      ELSE ValidityWalk(chain, i + 1, block_hash)

\* A check that finds every chain valid.
AlwaysValid(chain) == [result |-> "True", chain |-> chain]

check_chain_validity(chain) == ValidityWalk(chain, 1, ZeroString)

\* create_chain_from_dump from position idx of the dump on (position 1, the
\* genesis of the dump, is skipped): every block goes through add_block, and
\* the first one add_block refuses raises "The chain dump is tampered!!".
RECURSIVE DumpWalk(_, _, _)
DumpWalk(bc, chain_dump, idx) ==
    IF idx > Len(chain_dump) THEN [tampered |-> FALSE, blockchain |-> bc]
    ELSE LET block_data == chain_dump[idx]
             block == Posted(block_data)
             proof == block_data.hash[1]
         IN  IF ~AddBlockAccepts(bc, block, proof)
             THEN [tampered |-> TRUE, blockchain |-> bc]
             ELSE DumpWalk(AddBlockAppend(bc, block, proof), chain_dump, idx + 1)

\* create_chain_from_dump returning what it rebuilt before the refused block.
AdoptPrefix(chain_dump) ==
    [DumpWalk(NewBlockchain, chain_dump, 2) EXCEPT !.tampered = FALSE]

create_chain_from_dump(chain_dump) == DumpWalk(NewBlockchain, chain_dump, 2)

\* ------------------------------------------------------------ environment
\* What the peers send.  A record of a peer (never submitted to this node).
ForeignTx(i) == [author |-> "peer", content |-> MaxTx + 1 + i, timestamp |-> 1]

\* A block a peer mined: nonce and hash are those its own search ended on (the
\* nonce enters Scramble with step 1, so the first nonce with the zero prefix
\* is the distance of nonce 0's number from MaxSearch + 1).
Sealed(index, transactions, timestamp, previous_hash) ==
    LET b == Block(index, transactions, timestamp, previous_hash, 0)
        n == (MaxSearch + 1 - Scramble(JsonDumps(b))) % (MaxSearch + 1)
        mined == [b EXCEPT !.nonce = n]
    IN  [mined EXCEPT !.hash = <<compute_hash(mined)>>]

\* block.__dict__ as it travels in JSON.
AsDict(b) == [b EXCEPT !.cls = "dict", !.txlist = 0]

\* The chain of a peer that started from the same genesis and mined k - 1 blocks.
RECURSIVE PeerChain(_)
PeerChain(k) ==
    IF k <= 1 THEN <<AsDict(GenesisBlock)>>
    ELSE LET c == PeerChain(k - 1)
             tip == c[k - 1]
         IN  Append(c, AsDict(Sealed(tip.index + 1, <<ForeignTx(k)>>, 1,
                                     tip.hash[1])))

\* The same chain with one transaction of block i replaced after sealing.
TamperedTx(k, i) ==
    [PeerChain(k) EXCEPT ![i].transactions = <<ForeignTx(0)>>]

\* The same chain with block i sealed on a previous_hash that is not its
\* predecessor's hash.
TamperedLink(k, i) ==
    LET c == PeerChain(k)
    IN  [c EXCEPT ![i] = AsDict(Sealed(c[i].index, c[i].transactions, 1,
                                       ZeroString))]

\* The same chain whose last block was sealed with an index that does not
\* follow its predecessor's.
Misnumbered(k) ==
    LET c == PeerChain(k)
    IN  [c EXCEPT ![k] = AsDict(Sealed(c[k].index + 2, c[k].transactions, 1,
                                       c[k].previous_hash))]

\* The chains the peers of this model hold and send: a sound one of MaxChain
\* blocks, and the same tampered with in one place (its first mined block's
\* transactions, its last block's link, its last block's index).
ChainDumps ==
    {PeerChain(MaxChain), Misnumbered(MaxChain),
     TamperedLink(MaxChain, MaxChain), TamperedTx(MaxChain, 2)}

\* What a peer answers to GET /chain: a length and a chain (the two need not
\* agree: a peer that holds nothing but its genesis block, and peers that
\* report more blocks than any chain here has), or nothing: the request
\* raises ConnectionError.
ChainReplies ==
    [ok : {TRUE}, length : {MaxChain + 1}, chain : ChainDumps \cup {<<>>}]
      \cup {[ok |-> TRUE, length |-> 1, chain |-> PeerChain(1)],
            [ok |-> FALSE, length |-> 0, chain |-> <<>>]}

\* What a peer answers to POST /register_node: 200 with a chain and a peer
\* list, 200 with a body that is not JSON (the answer of this program's own
\* register_node), or 400.
RegisterReplies ==
    [status : {200}, json : {TRUE}, chain : ChainDumps, peers : {Addresses}]
      \cup {[status |-> 200, json |-> FALSE, chain |-> <<>>, peers |-> {}],
            [status |-> 400, json |-> FALSE, chain |-> <<>>, peers |-> {}]}

\* The answers a request to /register_with may meet: none is asked for when
\* the address is empty (0).
RepliesTo(node_address) ==
    IF node_address = 0
    THEN {[status |-> 400, json |-> FALSE, chain |-> <<>>, peers |-> {}]}
    ELSE RegisterReplies

\* What a peer posts to /add_block on a node whose chain is `chain`: a block
\* it mined on the tip; the same with an index that does not follow the tip's;
\* a block mined on "0"; the mined block one nonce further, with its own
\* digest; and the mined block with a forged string as its hash.
BlockPosts(chain) ==
    LET tip == chain[Len(chain)]
        txs == <<ForeignTx(Len(chain))>>
        good == Sealed(tip.index + 1, txs, 1, tip.hash[1])
        off == [good EXCEPT !.nonce = @ + 1, !.hash = <<>>]
    IN  {AsDict(b) : b \in
            {good,
             Sealed(tip.index + 3, txs, 1, tip.hash[1]),
             Sealed(tip.index + 1, txs, 1, ZeroString),
             [off EXCEPT !.hash = <<compute_hash(off)>>],
             [good EXCEPT !.hash = <<ForgedString>>]}}

\* ------------------------------------------------------------------ state
VARIABLES
    ledgers,      \* the objects `blockchain` was ever bound to, in creation order
    blockchain,   \* the module-level name `blockchain`: an index into ledgers
    peers,        \* the module-level set `peers`
    pc,           \* pc[t]: where thread t is in its handler
    self,         \* self[t]: the object thread t's mine/add_block call runs on
    loc,          \* loc[t]: the local variables of thread t's handler
    submitted,    \* records accepted by /new_transaction so far
    resyncs,      \* chains adopted by /register_with so far
    refused       \* "The chain dump is tampered!!" exceptions raised so far

vars == <<ledgers, blockchain, peers, pc, self, loc, submitted, resyncs,
          refused>>

\* The locals of a handler before any is bound.  `lengths` is the values the
\* local `length` of consensus has taken in the pass, in order.
NoLocals ==
    [new_block |-> <<>>, proof |-> NoString, last_block |-> <<>>,
     added |-> FALSE, chain_length |-> 0, current_len |-> 0,
     longest_chain |-> <<>>, todo |-> {}, size |-> 0, block |-> <<>>,
     lengths |-> <<>>]

\* An object nothing refers to any more.
Dead == [kind |-> "dead", chain |-> <<>>, unconfirmed_transactions |-> <<>>]

Init ==
    /\ ledgers = <<NewBlockchain>>
    /\ blockchain = 1
    /\ peers = {}
    /\ pc = [t \in Threads |-> "idle"]
    /\ self = [t \in Threads |-> 0]
    /\ loc = [t \in Threads |-> NoLocals]
    /\ submitted = 0
    /\ resyncs = 0
    /\ refused = 0

\* The object `blockchain` is bound to, and whether it is a Blockchain.
Node == ledgers[blockchain]
IsBlockchain(bc) == bc.kind = "Blockchain"

\* The objects of ls that `blockchain` (cur), a running call (slf) or a block
\* being announced (lc) still refers to; the others are garbage.
Collect(ls, cur, slf, lc) ==
    [k \in DOMAIN ls |->
        IF \/ k = cur
           \/ \E u \in Threads :
                \/ slf[u] = k
                \/ lc[u].block # <<>> /\ lc[u].block[1] = k
        THEN ls[k] ELSE Dead]

\* The step leaves the objects ls; written last in every action.
Store(ls) == ledgers' = Collect(ls, blockchain', self', loc')

\* The handler of thread t ends (it answers, or an exception nobody catches
\* makes Flask answer 500); lc is what the locals of all threads have become.
FinishWith(t, lc) ==
    /\ pc' = [pc EXCEPT ![t] = "idle"]
    /\ loc' = [lc EXCEPT ![t] = NoLocals]
    /\ self' = [self EXCEPT ![t] = 0]

Finish(t) == FinishWith(t, loc)

\* A request arrives and thread t serves it: the server hands a request to a
\* thread that serves none, and which one makes no difference, so the model
\* takes the first.
Takes(t) ==
    /\ pc[t] = "idle"
    /\ \A u \in 1..(t - 1) : pc[u] # "idle"

\* Every place a block object is referenced from: the chains and the
\* candidates the threads hold.  F is applied to each block.
MapLedgers(F(_), ls) ==
    [k \in DOMAIN ls |->
        [ls[k] EXCEPT !.chain = [i \in DOMAIN ls[k].chain |-> F(ls[k].chain[i])]]]
MapLocals(F(_), lc) ==
    [t \in DOMAIN lc |->
        [lc[t] EXCEPT !.new_block = [i \in DOMAIN lc[t].new_block |->
                                        F(lc[t].new_block[i])]]]

\* list.append on the list bound to ledgers[k].unconfirmed_transactions, as
\* seen through a block that holds the same list.
AppendThrough(b, k, tx) ==
    IF b.txlist = k THEN [b EXCEPT !.transactions = Append(@, tx)] ELSE b

\* ledgers[k].unconfirmed_transactions is bound to a new list: the blocks that
\* hold the old one keep it, and nothing else refers to it any more.
Detach(b, k) == IF b.txlist = k THEN [b EXCEPT !.txlist = 0] ELSE b

\* ---------------------------------------------------- POST /new_transaction
\* new_transaction and Blockchain.add_new_transaction.
NewTransaction(t, tx_data, now) ==
    /\ Takes(t)
    /\ UNCHANGED <<blockchain, peers, resyncs, refused>>
    /\ IF tx_data.author = "" \/ tx_data.content = 0
       THEN /\ Finish(t)   \* 404 "Invalid transaction data"
            /\ UNCHANGED submitted
            /\ Store(ledgers)
       ELSE IF ~IsBlockchain(Node)
       THEN /\ Finish(t)   \* raises AttributeError
            /\ UNCHANGED submitted
            /\ Store(ledgers)
       ELSE /\ submitted < MaxTx
            /\ submitted' = submitted + 1
            /\ LET tx == [author |-> tx_data.author, content |-> tx_data.content,
                          timestamp |-> now]
                   Through(b) == AppendThrough(b, blockchain, tx)
               IN  /\ FinishWith(t, MapLocals(Through, loc))   \* 201 "Success"
                   /\ Store(MapLedgers(Through,
                         [ledgers EXCEPT
                            ![blockchain].unconfirmed_transactions = Append(@, tx)]))

\* ------------------------------------------------------------- GET /mine
\* mine without the test of its lines 135-136: a block is built from whatever
\* the pool holds, records or none.
MineAnyway(t, now) ==
    /\ Takes(t)
    /\ UNCHANGED <<blockchain, peers, submitted, resyncs, refused>>
    /\ IsBlockchain(Node)
    /\ Len(Node.chain) < MaxChain
    /\ LET b == NewBlock(Node, blockchain, now)
       IN  loc' = [loc EXCEPT ![t].new_block = <<b>>,
                              ![t].last_block = <<last_block(Node)>>,
                              ![t].proof = compute_hash(b)]
    /\ pc' = [pc EXCEPT ![t] = "m_pow"]
    /\ self' = [self EXCEPT ![t] = blockchain]
    /\ Store(ledgers)

\* mine_unconfirmed_transactions calls blockchain.mine(): lines 135-146 and
\* the first two lines of proof_of_work.
MineStart(t, now) ==
    /\ Takes(t)
    /\ UNCHANGED <<blockchain, peers, submitted, resyncs, refused>>
    /\ IF ~IsBlockchain(Node)
       THEN Finish(t)   \* raises AttributeError
       ELSE IF Node.unconfirmed_transactions = <<>>
       THEN /\ pc' = [pc EXCEPT ![t] = "m_none"]   \* mine returns False
            /\ UNCHANGED <<self, loc>>
       ELSE /\ Len(Node.chain) < MaxChain
            /\ LET b == NewBlock(Node, blockchain, now)
               IN  loc' = [loc EXCEPT ![t].new_block = <<b>>,
                                      ![t].last_block = <<last_block(Node)>>,
                                      ![t].proof = compute_hash(b)]
            /\ pc' = [pc EXCEPT ![t] = "m_pow"]
            /\ self' = [self EXCEPT ![t] = blockchain]
    /\ Store(ledgers)

\* /mine, lines 203-204: mine returned False and the handler answers
\* "No transactions to mine".
MineNothing(t) ==
    /\ pc[t] = "m_none"
    /\ Finish(t)
    /\ UNCHANGED <<blockchain, peers, submitted, resyncs, refused>>
    /\ Store(ledgers)

\* proof_of_work, one turn of its loop.
PowStep(t) ==
    /\ pc[t] = "m_pow"
    /\ ~StartsWithZeros(loc[t].proof, difficulty)
    /\ LET b == [loc[t].new_block[1] EXCEPT !.nonce = @ + 1]
       IN  loc' = [loc EXCEPT ![t].new_block = <<b>>,
                              ![t].proof = compute_hash(b)]
    /\ UNCHANGED <<ledgers, blockchain, peers, pc, self, submitted,
                   resyncs, refused>>

\* mine, lines 149-150: the search has ended and add_block is called; add_block
\* up to its last test (lines 67-73).
AddBlockTest(t) ==
    /\ pc[t] = "m_pow"
    /\ StartsWithZeros(loc[t].proof, difficulty)
    /\ UNCHANGED <<ledgers, blockchain, peers, self, submitted, resyncs,
                   refused>>
    /\ IF AddBlockAccepts(ledgers[self[t]], loc[t].new_block[1], loc[t].proof)
       THEN /\ pc' = [pc EXCEPT ![t] = "m_append"]
            /\ UNCHANGED loc
       ELSE /\ pc' = [pc EXCEPT ![t] = "m_clear"]
            /\ loc' = [loc EXCEPT ![t].added = FALSE]

\* add_block, lines 75-77.
AddBlockStore(t) ==
    /\ pc[t] \in {"m_append", "ab_append"}
    /\ UNCHANGED <<blockchain, peers, submitted, resyncs, refused>>
    /\ LET block == loc[t].new_block[1]
           proof == loc[t].proof
       IN  /\ IF pc[t] = "m_append"
              THEN /\ pc' = [pc EXCEPT ![t] = "m_clear"]
                   /\ loc' = [loc EXCEPT ![t].added = TRUE,
                                         ![t].new_block[1].hash = <<proof>>]
                   /\ UNCHANGED self
              ELSE Finish(t)   \* 201 "Block added to the chain"
           /\ Store([ledgers EXCEPT ![self[t]] = AddBlockAppend(@, block, proof)])

\* mine, lines 152-154, and line 208 of the handler.
MineClear(t) ==
    /\ pc[t] = "m_clear"
    /\ UNCHANGED <<blockchain, peers, submitted, resyncs, refused>>
    /\ LET Off(b) == Detach(b, self[t])
       IN  /\ IF ~IsBlockchain(Node)
              THEN FinishWith(t, MapLocals(Off, loc))   \* AttributeError
              ELSE /\ loc' = [MapLocals(Off, loc) EXCEPT
                                ![t] = [NoLocals EXCEPT
                                          !.chain_length = Len(Node.chain)]]
                   /\ pc' = [pc EXCEPT ![t] = "m_sync"]
                   /\ self' = [self EXCEPT ![t] = 0]
                  /\ Store(MapLedgers(Off,
                 [ledgers EXCEPT ![self[t]].unconfirmed_transactions = <<>>]))

\* consensus, lines 340-343: the pass starts iterating over `peers`.
ConsensusStart(t) ==
    /\ pc[t] = "m_sync"
    /\ UNCHANGED <<blockchain, peers, submitted, resyncs, refused>>
    /\ IF ~IsBlockchain(Node)
       THEN Finish(t)   \* raises AttributeError
       ELSE /\ loc' = [loc EXCEPT ![t].current_len = Len(Node.chain),
                                  ![t].longest_chain = <<>>,
                                  ![t].todo = peers,
                                  ![t].size = Cardinality(peers)]
            /\ pc' = [pc EXCEPT ![t] = "m_consensus"]
            /\ UNCHANGED self
    /\ Store(ledgers)

\* A Python set that grew since the loop over it started raises RuntimeError
\* at the loop's next turn.
SetChanged(t) == Cardinality(peers) # loc[t].size

\* consensus, lines 343-349: one turn of the loop, for peer `node` answering
\* `reply`.  Nothing catches what requests.get or check_chain_validity raise.
ConsensusFetch(t, node, reply) ==
    /\ pc[t] = "m_consensus"
    /\ node \in loc[t].todo
    /\ UNCHANGED <<blockchain, peers, submitted, resyncs, refused>>
    /\ IF SetChanged(t) THEN Finish(t)   \* raises RuntimeError
       ELSE IF ~reply.ok THEN Finish(t)   \* raises ConnectionError
       ELSE IF reply.length > loc[t].current_len
       THEN LET valid == check_chain_validity(reply.chain).result
            IN  IF valid = "AttributeError"
                THEN Finish(t)   \* raises AttributeError
                ELSE /\ loc' = [loc EXCEPT
                          ![t].todo = @ \ {node},
                          ![t].lengths = Append(@, reply.length),
                          ![t].current_len =
                              IF valid = "True" THEN reply.length ELSE @,
                          ![t].longest_chain =
                              IF valid = "True" THEN <<reply.chain>> ELSE @]
                     /\ UNCHANGED <<pc, self>>
       ELSE /\ loc' = [loc EXCEPT ![t].todo = @ \ {node},
                                  ![t].lengths = Append(@, reply.length)]
            /\ UNCHANGED <<pc, self>>
    /\ Store(ledgers)

\* `if longest_chain:` is false for None and for an empty list.
Truthy(longest_chain) == longest_chain # <<>> /\ longest_chain[1] # <<>>

\* consensus, lines 351-355, and lines 210-213 of the handler: the loop has
\* ended; `blockchain = longest_chain` binds the name to the list the peer
\* sent, which has no attribute `chain` for line 210 to read; otherwise the
\* handler compares lengths and either starts announcing the tip or answers.
ConsensusEnd(t) ==
    /\ pc[t] = "m_consensus"
    /\ loc[t].todo = {}
    /\ UNCHANGED <<peers, submitted, resyncs, refused>>
    /\ IF SetChanged(t)
       THEN /\ Finish(t)   \* raises RuntimeError
            /\ UNCHANGED blockchain
            /\ Store(ledgers)
       ELSE IF Truthy(loc[t].longest_chain)
       THEN /\ blockchain' = Len(ledgers) + 1
            /\ Finish(t)   \* raises AttributeError
            /\ Store(Append(ledgers,
                            [kind |-> "list", chain |-> loc[t].longest_chain[1],
                             unconfirmed_transactions |-> <<>>]))
       ELSE IF ~IsBlockchain(Node)
       THEN /\ Finish(t)   \* raises AttributeError
            /\ UNCHANGED blockchain
            /\ Store(ledgers)
       ELSE IF loc[t].chain_length = Len(Node.chain)
       THEN /\ loc' = [loc EXCEPT
                         ![t] = [NoLocals EXCEPT
                                   !.block = <<blockchain, Len(Node.chain)>>,
                                   !.todo = peers,
                                   !.size = Cardinality(peers)]]
            /\ pc' = [pc EXCEPT ![t] = "m_announce"]
            /\ UNCHANGED <<blockchain, self>>
            /\ Store(ledgers)
       ELSE /\ Finish(t)   \* 200 "Block #n is mined."
            /\ UNCHANGED blockchain
            /\ Store(ledgers)

\* announce_new_block, one turn of its loop: block.__dict__ is serialized and
\* posted to `peer`; nothing catches what requests.post raises.
AnnounceSend(t, peer, delivered) ==
    /\ pc[t] = "m_announce"
    /\ peer \in loc[t].todo
    /\ UNCHANGED <<blockchain, peers, submitted, resyncs, refused>>
    /\ IF SetChanged(t)
       THEN Finish(t)   \* raises RuntimeError
       ELSE IF ~delivered
       THEN Finish(t)   \* raises ConnectionError
       ELSE /\ loc' = [loc EXCEPT ![t].todo = @ \ {peer}]
            /\ UNCHANGED <<pc, self>>
    /\ Store(ledgers)

\* The loop of announce_new_block has ended: line 213.
AnnounceEnd(t) ==
    /\ pc[t] = "m_announce"
    /\ loc[t].todo = {}
    /\ UNCHANGED <<blockchain, peers, submitted, resyncs, refused>>
    /\ IF SetChanged(t) THEN Finish(t)   \* raises RuntimeError
       ELSE IF ~IsBlockchain(Node) THEN Finish(t)   \* raises AttributeError
       ELSE Finish(t)   \* 200 "Block #n is mined."
    /\ Store(ledgers)

\* ----------------------------------------------------------- POST /add_block
\* verify_and_add_block up to the last test of add_block: the block is built
\* from the request and add_block (lines 67-73) tests it.
VerifyAndAddBlock(t, block_data) ==
    /\ Takes(t)
    /\ Len(Node.chain) < MaxChain
    /\ UNCHANGED <<blockchain, peers, submitted, resyncs, refused>>
    /\ LET block == Posted(block_data)
           proof == block_data.hash[1]
       IN  IF ~IsBlockchain(Node)
           THEN Finish(t)   \* raises AttributeError
           ELSE IF AddBlockAccepts(Node, block, proof)
           THEN /\ pc' = [pc EXCEPT ![t] = "ab_append"]
                /\ self' = [self EXCEPT ![t] = blockchain]
                /\ loc' = [loc EXCEPT ![t].new_block = <<block>>,
                                      ![t].proof = proof]
           ELSE Finish(t)   \* 400 "The block was discarded by the node"
    /\ Store(ledgers)

\* ------------------------------------------------------ POST /register_node
\* register_node; node_address 0 stands for a missing or empty address.  The
\* addresses are interchangeable, so they register in the order of their
\* numbers.
RegisterNode(t, node_address) ==
    /\ Takes(t)
    /\ node_address > 1 => (node_address - 1) \in peers
    /\ UNCHANGED <<blockchain, submitted, resyncs, refused>>
    /\ IF node_address # 0
       THEN /\ peers' = peers \cup {node_address}
            /\ Finish(t)   \* 200 "Node registered successfully"
       ELSE /\ Finish(t)   \* 400 "Invalid node address"
            /\ UNCHANGED peers
    /\ Store(ledgers)

\* ------------------------------------------------------ POST /register_with
\* register_with_existing_node: the remote node is asked and answers `reply`;
\* the chain is rebuilt from the dump, `blockchain` is bound to the new object
\* and the peers of the reply join `peers`.  node_address 0 stands for an
\* empty address.
RegisterWith(t, node_address, reply) ==
    /\ Takes(t)
    /\ UNCHANGED submitted
    /\ IF node_address = 0 \/ reply.status # 200 \/ ~reply.json
       THEN \* 400 "Invalid data"; the peer's answer is passed on; or
            \* response.json() raises JSONDecodeError
            /\ Finish(t)
            /\ UNCHANGED <<blockchain, peers, resyncs, refused>>
            /\ Store(ledgers)
       ELSE LET rebuilt == create_chain_from_dump(reply.chain)
            IN  IF rebuilt.tampered
                THEN /\ refused < MaxRefused
                     /\ refused' = refused + 1
                     /\ Finish(t)   \* raises Exception("The chain dump is tampered!!")
                     /\ UNCHANGED <<blockchain, peers, resyncs>>
                     /\ Store(ledgers)
                ELSE /\ resyncs < MaxResync
                     /\ blockchain' = Len(ledgers) + 1
                     /\ peers' = peers \cup reply.peers
                     /\ resyncs' = resyncs + 1
                     /\ UNCHANGED refused
                     /\ Finish(t)   \* 200 "Registration successful"
                     /\ Store(Append(ledgers, rebuilt.blockchain))

\* --------------------------------------------------------- specifications
\* What a client may post to /new_transaction next.
TxPosts ==
    {[author |-> a, content |-> submitted + 1] : a \in {"a", ""}}

\* No request but thread t's is in flight.
Alone(t) == \A u \in Threads \ {t} : pc[u] = "idle"

\* The threaded server: the requests in flight interleave.
Next ==
    \E t \in Threads :
        \/ \E tx_data \in TxPosts, now \in Times : NewTransaction(t, tx_data, now)
        \/ \E now \in Times : MineStart(t, now)
        \/ MineNothing(t)
        \/ PowStep(t)
        \/ AddBlockTest(t)
        \/ AddBlockStore(t)
        \/ MineClear(t)
        \/ ConsensusStart(t)
        \/ \E node \in Addresses, reply \in ChainReplies :
              ConsensusFetch(t, node, reply)
        \/ ConsensusEnd(t)
        \/ \E peer \in Addresses, delivered \in BOOLEAN :
              AnnounceSend(t, peer, delivered)
        \/ AnnounceEnd(t)
        \/ \E block_data \in BlockPosts(Node.chain) :
              VerifyAndAddBlock(t, block_data)
        \/ \E node_address \in Addresses \cup {0} : RegisterNode(t, node_address)
        \/ \E node_address \in 0..1 : \E reply \in RepliesTo(node_address) :
              RegisterWith(t, node_address, reply)

Spec == Init /\ [][Next]_vars

\* The same handlers with the requests served one after another: a request
\* makes a step only while no other request is in flight.
SeqNext ==
    \E t \in Threads :
        \/ \E tx_data \in TxPosts, now \in Times :
              Alone(t) /\ NewTransaction(t, tx_data, now)
        \/ \E now \in Times : Alone(t) /\ MineStart(t, now)
        \/ Alone(t) /\ MineNothing(t)
        \/ Alone(t) /\ PowStep(t)
        \/ Alone(t) /\ AddBlockTest(t)
        \/ Alone(t) /\ AddBlockStore(t)
        \/ Alone(t) /\ MineClear(t)
        \/ Alone(t) /\ ConsensusStart(t)
        \/ \E node \in Addresses, reply \in ChainReplies :
              Alone(t) /\ ConsensusFetch(t, node, reply)
        \/ Alone(t) /\ ConsensusEnd(t)
        \/ \E peer \in Addresses, delivered \in BOOLEAN :
              Alone(t) /\ AnnounceSend(t, peer, delivered)
        \/ Alone(t) /\ AnnounceEnd(t)
        \/ \E block_data \in BlockPosts(Node.chain) :
              Alone(t) /\ VerifyAndAddBlock(t, block_data)
        \/ \E node_address \in Addresses \cup {0} :
              Alone(t) /\ RegisterNode(t, node_address)
        \/ \E node_address \in 0..1 : \E reply \in RepliesTo(node_address) :
              Alone(t) /\ RegisterWith(t, node_address, reply)

SeqSpec == Init /\ [][SeqNext]_vars

\* ------------------------------------------------------------------ claims
\* The grounds on which add_block is to refuse a block: the claimed hash lacks
\* the zero prefix, it is not the digest of the block, or the block does not
\* name the tip's hash as its previous_hash.
C1_Grounds(bc, block, proof) ==
    \/ ~StartsWithZeros(proof, difficulty)
    \/ proof # compute_hash(block)
    \/ block.previous_hash # last_block(bc).hash[1]

\* add_block's answer for every block on offer: the blocks a peer may post,
\* and the candidate of a mine call whose search has ended.
C1_Returns ==
    /\ \A block_data \in BlockPosts(Node.chain) :
          AddBlockAccepts(Node, Posted(block_data), block_data.hash[1])
            <=> ~C1_Grounds(Node, Posted(block_data), block_data.hash[1])
    /\ \A t \in Threads :
          pc[t] = "m_pow" /\ StartsWithZeros(loc[t].proof, difficulty) =>
             (AddBlockAccepts(ledgers[self[t]], loc[t].new_block[1], loc[t].proof)
                <=> ~C1_Grounds(ledgers[self[t]], loc[t].new_block[1],
                                loc[t].proof))

\* What a step of add_block does to the chain.
C1_Step ==
    \A t \in Threads :
        /\ \A block_data \in BlockPosts(Node.chain) :
              VerifyAndAddBlock(t, block_data) =>
                 /\ ledgers' = ledgers
                 /\ IF C1_Grounds(Node, Posted(block_data), block_data.hash[1])
                    THEN pc'[t] = "idle"
                    ELSE /\ pc'[t] = "ab_append"
                         /\ loc'[t].new_block = <<Posted(block_data)>>
                         /\ loc'[t].proof = block_data.hash[1]
        /\ AddBlockTest(t) =>
              /\ ledgers' = ledgers
              /\ IF C1_Grounds(ledgers[self[t]], loc[t].new_block[1], loc[t].proof)
                 THEN pc'[t] = "m_clear" /\ ~loc'[t].added
                 ELSE pc'[t] = "m_append"
        /\ AddBlockStore(t) =>
              LET bc == ledgers[self[t]]
                  block == loc[t].new_block[1]
                  after == ledgers'[self[t]]
              IN  /\ ~C1_Grounds(bc, block, loc[t].proof)
                  /\ after.chain = Append(bc.chain,
                                          [block EXCEPT !.hash = <<loc[t].proof>>])
                  /\ last_block(after).hash = <<loc[t].proof>>
                  /\ Len(after.chain) = Len(bc.chain) + 1
                  /\ pc[t] = "m_append" => loc'[t].added

\* C1: add_block, offered a block and a claimed hash by mine or by /add_block,
\* returns false and leaves the chain as it is when the hash lacks the zero
\* prefix, is not the block's digest, or the block's previous_hash is not the
\* tip's hash; otherwise it returns true, stores the hash on the block and the
\* block becomes the tip of a chain one block longer.
C1_AppendGating == []C1_Returns /\ [][C1_Step]_vars

\* A chain that holds a block this node mined and a block a peer posted.
C1_BothAppended ==
    /\ resyncs = 0
    /\ \E i, j \in 2..Len(Node.chain) :
          /\ Node.chain[i].transactions[1].author = "a"
          /\ Node.chain[j].transactions[1].author = "peer"

\* C2: in every state reached by submits, mines, peer-block appends and
\* resyncs served one after another, the node's chain is not empty, starts
\* with the genesis block, and every later block's previous_hash is the hash
\* of the block before it.
C2_HashLinkage ==
    /\ IsBlockchain(Node)
    /\ Len(Node.chain) >= 1
    /\ Node.chain[1] = GenesisBlock
    /\ \A i \in 2..Len(Node.chain) :
          /\ Node.chain[i - 1].hash # <<>>
          /\ Node.chain[i].previous_hash = Node.chain[i - 1].hash[1]

\* A chain rebuilt from a peer's dump, with a record submitted since.
C2_ResyncedChain ==
    /\ resyncs = 1
    /\ Len(Node.chain) = MaxChain
    /\ Node.unconfirmed_transactions # <<>>

\* C3: in every reachable state the genesis block has index 0 and every later
\* block's index is one more than the index of the block before it.
C3_IndexInvariant ==
    /\ Node.chain[1].index = 0
    /\ \A i \in 2..Len(Node.chain) :
          Node.chain[i].index = Node.chain[i - 1].index + 1

\* The walk of check_chain_validity over a chain ends with True.
C4_Passes(chain) == ValidityWalk(chain, 1, ZeroString).result = "True"

\* What a step of a consensus pass does to the local chain.
C4_Step ==
    \A t \in Threads :
        (\/ ConsensusStart(t)
         \/ \E node \in Addresses, reply \in ChainReplies :
               ConsensusFetch(t, node, reply)
         \/ ConsensusEnd(t)) =>
            \/ /\ blockchain' = blockchain
               /\ ledgers'[blockchain] = ledgers[blockchain]
            \/ /\ C4_Passes(ledgers'[blockchain'].chain)
               /\ Len(ledgers'[blockchain'].chain) > loc[t].chain_length

\* C4: whatever the peers report and in whatever order they are asked, a
\* consensus pass leaves the local chain as it is or replaces it with a chain
\* that passes check_chain_validity and has more blocks than the local chain
\* had before the pass.
C4_ConsensusMonotone == [][C4_Step]_vars

\* A pass that asked every peer and holds a candidate longer than the local
\* chain.
C4_PassWithCandidate ==
    \E t \in Threads :
        /\ pc[t] = "m_consensus"
        /\ loc[t].todo = {}
        /\ loc[t].size = MaxPeers
        /\ loc[t].current_len > loc[t].chain_length

\* What the steps of a mine call served alone do.
C5_Step ==
    \A t \in Threads :
        /\ \A now \in Times :
              MineStart(t, now) /\ pc'[t] = "m_pow" =>
                 /\ ledgers' = ledgers
                 /\ loc'[t].last_block = <<last_block(Node)>>
        /\ PowStep(t) \/ AddBlockTest(t) => ledgers' = ledgers
        /\ pc[t] = "m_append" /\ AddBlockStore(t) =>
              LET bc == ledgers[self[t]]
                  after == ledgers'[self[t]]
                  old == loc[t].last_block[1]
                  tip == last_block(after)
                  txs == tip.transactions
              IN  /\ last_block(bc) = old
                  /\ after.chain = Append(bc.chain, tip)
                  /\ tip.index = old.index + 1
                  /\ tip.previous_hash = old.hash[1]
                  /\ txs = bc.unconfirmed_transactions
                  /\ txs # <<>>
                  /\ \A i, j \in DOMAIN txs : i < j => txs[i].content < txs[j].content
                  /\ tip.hash # <<>>
                  /\ StartsWithZeros(tip.hash[1], difficulty)
                  /\ after.unconfirmed_transactions = bc.unconfirmed_transactions
        /\ MineClear(t) =>
              LET bc == ledgers[self[t]]
                  after == ledgers'[self[t]]
              IN  /\ loc[t].added
                  /\ Len(after.chain) = Len(bc.chain)
                  /\ last_block(after).transactions = bc.unconfirmed_transactions
                  /\ \A i \in DOMAIN bc.chain :
                        [after.chain[i] EXCEPT !.txlist = 0]
                           = [bc.chain[i] EXCEPT !.txlist = 0]
                  /\ after.unconfirmed_transactions = <<>>
                  /\ pc'[t] = "m_sync"

\* C5: mine() on a pool that is not empty, nothing else running, appends one
\* block: its index is the old tip's plus one, its previous_hash the old tip's
\* hash, its transactions the records pending when mine was called, in the
\* order they were submitted, its hash has the zero prefix; and when mine
\* returns the pool is empty.
C5_MineAppendsOne == [][C5_Step]_vars

\* mine has returned: the tip holds MaxTx records and the pool is empty.
C5_Mined ==
    \E t \in Threads :
        /\ pc[t] = "m_sync"
        /\ Node.unconfirmed_transactions = <<>>
        /\ Len(last_block(Node).transactions) = MaxTx
        /\ last_block(Node).transactions[1].author = "a"

\* Record r is in the pending pool; the blocks of the chain that hold it.
C6_InPool(r) ==
    \E i \in DOMAIN Node.unconfirmed_transactions :
        Node.unconfirmed_transactions[i].content = r
C6_Holders(r) ==
    {i \in DOMAIN Node.chain :
        \E j \in DOMAIN Node.chain[i].transactions :
            Node.chain[i].transactions[j].content = r}

\* C6: with submits, mines and peer-block appends interleaved on a node that
\* never resynced, every state has each submitted record either in the pool
\* or in a block of the chain, and never in both or in neither.
C6_PoolChainAtomicity ==
    resyncs = 0 =>
       \A r \in 1..submitted : C6_InPool(r) <=> C6_Holders(r) = {}

\* C7: with mine calls running at the same time (no peer block, no resync),
\* the chain never holds two blocks with the same previous_hash, and no
\* record is in two blocks.
C7_NoDoubleSeal ==
    (/\ resyncs = 0
     /\ \A i \in 2..Len(Node.chain) :
           Node.chain[i].transactions[1].author = "a") =>
       /\ \A i, j \in DOMAIN Node.chain :
             i # j => Node.chain[i].previous_hash # Node.chain[j].previous_hash
       /\ \A r \in 1..submitted : Cardinality(C6_Holders(r)) <= 1

\* What the last step of mine does when add_block refused the candidate.
C8_Step ==
    \A t \in Threads :
        (/\ MineClear(t)
         /\ ~loc[t].added
         /\ self[t] = blockchain) =>
            /\ ledgers'[blockchain].unconfirmed_transactions
                  = ledgers[blockchain].unconfirmed_transactions
            /\ ledgers'[blockchain].chain = ledgers[blockchain].chain
            /\ pc'[t] = "idle"

\* C8: mine() clears the pool and reports success only if add_block appended
\* the candidate; when add_block refuses it, the candidate is not on the
\* chain, the pool keeps its records and mine reports failure.
C8_ClearOnlyOnAppend == [][C8_Step]_vars

\* C9: the chain made of the genesis block and the blocks mine() appended
\* passes check_chain_validity, and with one transaction of a block below the
\* tip changed it does not.
C9_ValidityRoundTrip ==
    (/\ resyncs = 0
     /\ \A t \in Threads : pc[t] = "idle"
     /\ \A i \in 2..Len(Node.chain) :
           Node.chain[i].transactions[1].author = "a") =>
       /\ check_chain_validity(Node.chain).result = "True"
       /\ \A i \in 2..(Len(Node.chain) - 1) :
             \A j \in DOMAIN Node.chain[i].transactions :
                check_chain_validity(
                    [Node.chain EXCEPT ![i].transactions[j] = ForeignTx(0)]
                ).result = "False"

\* A block of the dump that create_chain_from_dump goes through fails
\* re-validation: its hash is no valid proof of it, or its previous_hash is
\* not the hash of the block before it.
C10_FailsRevalidation(dump) ==
    \E i \in 2..Len(dump) :
        \/ ~is_valid_proof(Posted(dump[i]), dump[i].hash[1])
        \/ dump[i].previous_hash
              # (IF i = 2 THEN GenesisBlock.hash[1] ELSE dump[i - 1].hash[1])

\* The answers to /register_node that carry such a dump.
C10_FailingReplies ==
    {reply \in RegisterReplies :
        reply.status = 200 /\ reply.json /\ C10_FailsRevalidation(reply.chain)}

\* What /register_with does with such an answer.
C10_Step ==
    \A t \in Threads, reply \in C10_FailingReplies :
        RegisterWith(t, 1, reply) =>
            /\ create_chain_from_dump(reply.chain).tampered
            /\ refused' = refused + 1
            /\ blockchain' = blockchain
            /\ ledgers' = ledgers
            /\ peers' = peers
            /\ resyncs' = resyncs
            /\ pc'[t] = "idle"

\* C10: when a block of the dump a peer answered /register_with with fails
\* re-validation, the sync fails as a whole: the tampering is signalled, no
\* part of the dump is adopted, and chain and pool are what they were.
C10_TamperedDumpRejected == [][C10_Step]_vars

\* A dump was refused on a node that had grown a chain and holds a record.
C10_RefusedOnGrownChain ==
    /\ refused = 1
    /\ resyncs = 0
    /\ Len(Node.chain) > 1
    /\ Node.unconfirmed_transactions # <<>>

\* A reply a pass may select: fetched, passing check_chain_validity, with more
\* blocks than n.
C11_Eligible(reply, n) ==
    /\ reply.ok
    /\ Len(reply.chain) > n
    /\ check_chain_validity(reply.chain).result = "True"

\* The number of blocks of the chain a pass has selected so far (0: none).
C11_Best(longest_chain) ==
    IF Truthy(longest_chain) THEN Len(longest_chain[1]) ELSE 0

\* What the steps of a consensus pass do with what the peers report.
C11_Step ==
    \A t \in Threads :
        /\ \A node \in Addresses, reply \in ChainReplies :
              (/\ ConsensusFetch(t, node, reply)
               /\ reply.ok
               /\ ~SetChanged(t)) =>
                 /\ pc'[t] = "m_consensus"
                 /\ IF /\ C11_Eligible(reply, loc[t].chain_length)
                       /\ Len(reply.chain) > C11_Best(loc[t].longest_chain)
                    THEN loc'[t].longest_chain = <<reply.chain>>
                    ELSE /\ Truthy(loc'[t].longest_chain)
                              <=> Truthy(loc[t].longest_chain)
                         /\ Truthy(loc[t].longest_chain) =>
                              loc'[t].longest_chain = loc[t].longest_chain
        /\ (ConsensusEnd(t) /\ ~SetChanged(t)) =>
              IF Truthy(loc[t].longest_chain)
              THEN ledgers'[blockchain'].chain = loc[t].longest_chain[1]
              ELSE /\ blockchain' = blockchain
                   /\ ledgers'[blockchain] = ledgers[blockchain]
                   /\ pc'[t] = "m_announce" \/ pc'[t] = "idle"

\* C11: a consensus pass replaces the local chain with a longest chain among
\* those that were fetched, pass the chain validator and are longer than the
\* local chain, and returns true; when there is none it leaves the chain as
\* it is and returns false.
C11_LongestValidAdopted == [][C11_Step]_vars

\* What a failed call to a peer does to a mine-trigger cycle.
C12_Step ==
    \A t \in Threads :
        /\ \A node \in Addresses, reply \in ChainReplies :
              (/\ ConsensusFetch(t, node, reply)
               /\ ~reply.ok
               /\ ~SetChanged(t)) =>
                 /\ pc'[t] = "m_consensus"
                 /\ loc'[t].todo = loc[t].todo \ {node}
        /\ \A peer \in Addresses :
              (AnnounceSend(t, peer, FALSE) /\ ~SetChanged(t)) =>
                 /\ pc'[t] = "m_announce"
                 /\ loc'[t].todo = loc[t].todo \ {peer}

\* C12: in a mine-trigger cycle a failed call to a peer (the chain fetch of
\* consensus, the push of announce_new_block) skips that peer only: the
\* remaining peers are still contacted and the trigger still reports the
\* block as mined.
C12_PeerFailureIsolated == [][C12_Step]_vars

\* What the step that ends the consensus pass of a mine-trigger cycle does,
\* every peer asked having answered.
C13_Step ==
    \A t \in Threads :
        /\ pc'[t] = "m_announce" => pc[t] = "m_consensus" \/ pc[t] = "m_announce"
        /\ (/\ \/ \E node \in Addresses, reply \in ChainReplies :
                    reply.ok /\ ConsensusFetch(t, node, reply)
               \/ ConsensusEnd(t)
            /\ ~SetChanged(t)
            /\ pc'[t] # "m_consensus") =>
              IF blockchain' = blockchain /\ ledgers'[blockchain] = ledgers[blockchain]
              THEN /\ pc'[t] = "m_announce"
                   /\ loc'[t].block = <<blockchain, Len(Node.chain)>>
                   /\ loc'[t].todo = peers
              ELSE pc'[t] = "idle"

\* C13: in a mine-trigger cycle the consensus pass runs before any
\* announcement, and the mined block is pushed to the peers if and only if
\* the pass did not replace the chain; when it did, the block is not
\* announced and the node returns to idle.
C13_PropagationGating == [][C13_Step]_vars

\* What a pass does with a reply that passes the validator and reports the
\* length the chain selected so far was reported with: were the two chains
\* different, the one asked first would win and the other order would select
\* the other.
C14_Step ==
    \A t \in Threads :
        /\ \A node \in Addresses, reply \in ChainReplies :
              (/\ ConsensusFetch(t, node, reply)
               /\ reply.ok
               /\ pc'[t] = "m_consensus"
               /\ loc[t].longest_chain # <<>>
               /\ reply.length = loc[t].current_len
               /\ check_chain_validity(reply.chain).result = "True") =>
                 reply.chain = loc[t].longest_chain[1]
        /\ (ConsensusEnd(t) /\ blockchain' # blockchain) =>
              ledgers'[blockchain'].chain = loc[t].longest_chain[1]

C15_Step ==
    blockchain' # blockchain =>
       /\ IsBlockchain(ledgers'[blockchain'])
       /\ ledgers'[blockchain'].unconfirmed_transactions
             = Node.unconfirmed_transactions

\* C15: a resync that replaces the chain leaves the pending pool as it was,
\* the same records in the same order, and the node's ledger is still a
\* chain of blocks with that pool.
C15_ResyncKeepsPool == [][C15_Step]_vars

\* What /mine does when the pool is empty: the step that enters mine, and the
\* step after mine has returned False.
C16_Step ==
    \A t \in Threads :
        /\ (/\ pc[t] = "idle"
            /\ pc'[t] \in {"m_none", "m_pow"}
            /\ Node.unconfirmed_transactions = <<>>)
              => /\ pc'[t] = "m_none"
                 /\ loc'[t] = NoLocals
                 /\ UNCHANGED <<ledgers, blockchain, peers>>
        /\ (pc[t] = "m_none" /\ pc'[t] # "m_none")
              => /\ pc'[t] = "idle"
                 /\ UNCHANGED <<ledgers, blockchain, peers>>

\* C16: mine() on an empty pool reports that there is nothing to mine: no
\* candidate is built, nothing is appended, no consensus pass and no
\* announcement follow, and the chain and the pool are as they were.
C16_EmptyPoolMineIsNoOp == [][C16_Step]_vars

\* /mine has found the pool empty on a chain that has grown.
C16_NothingToMine ==
    \E t \in Threads :
        /\ pc[t] = "m_none"
        /\ Node.unconfirmed_transactions = <<>>
        /\ Len(Node.chain) > 1

\* proof_of_work on candidate b under difficulty d: the digest returned has d
\* leading zeros, it is the digest of b at the nonce the search ended on, no
\* smaller nonce gives such a digest, and the nonce is 0 when d is 0.
C17_Sealed(b, d) ==
    LET r == PowSearch([b EXCEPT !.nonce = 0], d)
    IN  /\ StartsWithZeros(r.hash, d)
        /\ r.hash = compute_hash([b EXCEPT !.nonce = r.nonce])
        /\ \A n \in 0..(r.nonce - 1) :
              ~StartsWithZeros(compute_hash([b EXCEPT !.nonce = n]), d)
        /\ d = 0 => r.nonce = 0

\* C17: for every candidate mine hands to proof_of_work and every difficulty
\* d >= 0 (up to the length of the modelled digest prefix), the digest
\* returned starts with d zeros, equals compute_hash of the candidate at its
\* final nonce, and that nonce is the smallest with such a digest, 0 when
\* d = 0; the search mine runs itself under the class's difficulty holds the
\* digest of the candidate at every turn and ends on that same result.
C17_SealingCorrect ==
    \A t \in Threads :
        pc[t] = "m_pow" =>
            LET b == loc[t].new_block[1]
            IN  /\ \A d \in 0..difficulty : C17_Sealed(b, d)
                /\ loc[t].proof = compute_hash(b)
                /\ StartsWithZeros(loc[t].proof, difficulty)
                      => [nonce |-> b.nonce, hash |-> loc[t].proof]
                            = proof_of_work(b)

\* A search has ended after more than one turn, on a candidate a weaker
\* difficulty would have sealed earlier.
C17_SearchEnded ==
    \E t \in Threads :
        /\ pc[t] = "m_pow"
        /\ StartsWithZeros(loc[t].proof, difficulty)
        /\ loc[t].new_block[1].nonce >= 2
        /\ PowSearch([loc[t].new_block[1] EXCEPT !.nonce = 0],
                     difficulty - 1).nonce < loc[t].new_block[1].nonce

\* The fields of a block the claim names.
C18_Fields(b) ==
    <<b.index, b.transactions, b.timestamp, b.previous_hash, b.nonce, b.hash>>

\* A step leaves every block of every chain in place with its fields.
C18_Step ==
    \A k \in DOMAIN ledgers :
        (IsBlockchain(ledgers[k]) /\ IsBlockchain(ledgers'[k]))
            => \A i \in DOMAIN ledgers[k].chain :
                  /\ i \in DOMAIN ledgers'[k].chain
                  /\ C18_Fields(ledgers'[k].chain[i])
                        = C18_Fields(ledgers[k].chain[i])

\* C18: once a block is on the chain none of its fields (index, transactions,
\* timestamp, previous_hash, nonce, hash) changes under any later submit, mine
\* or add_block, a submit served between mine's append and its return
\* included.
C18_SealedBlockImmutable == [][C18_Step]_vars

\* C19: check_chain_validity is read-only on its input: when it returns, with
\* true or with false, every block of the list it was given (here the node's
\* own chain) still has its hash with the value it had, and no other field
\* has changed.
C19_ValidityCheckReadOnly ==
    IsBlockchain(Node) =>
        LET r == check_chain_validity(Node.chain)
        IN  r.result \in {"True", "False"} => r.chain = Node.chain

\* Block.compute_hash of a block on its fields index, transactions, timestamp,
\* previous_hash and nonce alone.
C20_OfFiveFields(b) == compute_hash([b EXCEPT !.hash = <<>>])

\* C20: compute_hash depends only on index, transactions, timestamp,
\* previous_hash and nonce, whether or not the block has its hash assigned:
\* the digest of a block on the chain is that of the same five fields without
\* a hash, and for a block that was sealed over its five fields it is the
\* stored hash.
C20_DigestDeterminism ==
    IsBlockchain(Node) =>
        \A i \in DOMAIN Node.chain :
            LET b == Node.chain[i]
            IN  /\ compute_hash(b) = C20_OfFiveFields(b)
                /\ b.hash = <<C20_OfFiveFields(b)>> => compute_hash(b) = b.hash[1]

====
